---- MODULE Spec2Model ----
(***************************************************************************)
(* Adaptive traffic-signal controller (edge_controller.py).                *)
(*                                                                         *)
(* ProportionalController keeps a time-windowed list of density readings   *)
(* per lane, fed by the MQTT callback on_message, and a control loop that  *)
(* periodically averages the windows, allocates green time proportionally  *)
(* and publishes the schedule.                                             *)
(*                                                                         *)
(* Time is counted in whole units of the clock `now` (time.time()).        *)
(* Densities and averages are exact rationals: an average is kept as the   *)
(* pair sum/len, and the allocation arithmetic is carried out on           *)
(* numerator/denominator pairs, so truncation (int()) and the clamp        *)
(* comparisons are those of the exact quotient.                            *)
(***************************************************************************)
EXTENDS Integers, Sequences, FiniteSets, TLC

VARIABLES
    config,         \* self.config / self.timing / self.lanes, fixed by __init__
    sensor_data,    \* self.sensor_data: lane -> list of stored readings
    last_seq,       \* self.last_seq: lane -> last sequence number seen (-1 at start)
    metrics,        \* self.metrics: latencies, lost_messages, total_messages, cycle_count
    now,            \* the wall clock, time.time()
    connected,      \* the MQTT client is connected (callbacks are delivered)
    pc,             \* position of the control-loop thread
    wake_at,        \* end of the control loop's current time.sleep
    avg_densities,  \* control loop local: the snapshot of per-lane averages
    green_times,    \* control loop local: the schedule computed in this cycle
    published,      \* the last command message client.publish accepted
    csv_rows,       \* the rows log_to_csv wrote in the last cycle
    recv_log,       \* history: lane -> receipt times of the readings stored for it
    seqLog,         \* history: the sequence numbers fed by the loss-accounting scenario
    lock,           \* self.lock: "free", or the thread holding it ("ingest", "loop")
    loop_log,       \* history: the steps the control loop has taken
    dashboard_state,\* dashboard.py current_state: cycle_count, green_times, signals
    api_state,      \* app.py current_state: cycle_count, green_times, signals
    api_sensor_data,\* app.py sensor_data: lane -> deque of densities
    state_lock,     \* app.py state_lock: "free", or the thread holding it
    adaptive,       \* app.py AdaptiveController and its thread's locals
    sequence,       \* virtual_sensor.py self.sequence of each lane's sensor
    transport       \* history: lane -> first sequence number delivered, drops

vars == <<config, sensor_data, last_seq, metrics, now, connected, pc, wake_at,
          avg_densities, green_times, published, csv_rows, recv_log, seqLog,
          lock, loop_log, dashboard_state, api_state, api_sensor_data,
          state_lock, adaptive, sequence, transport>>

\* the observers and the all-in-one backend
auxVars == <<dashboard_state, api_state, api_sensor_data, state_lock, adaptive>>

\* the sensors and the transport, which feed the callback
feedVars == <<sequence, transport>>

ctlVars == <<pc, wake_at, avg_densities, green_times, published, csv_rows,
             loop_log>>

----------------------------------------------------------------------------
(* Bounds of the model                                                     *)

MaxTime == 2          \* the clock runs 0..MaxTime
MaxMsgs == 2          \* readings counted by total_messages in the full model
MaxSeq == 2           \* sequence numbers 0..MaxSeq in the full model
MaxCycles == 2        \* control-loop cycles
Window == 1           \* config['algorithm']['moving_average_window'], in clock units
ScenarioMaxSeq == 6   \* sequence numbers 0..ScenarioMaxSeq in the loss scenario
ScenarioLen == 5      \* readings fed in the loss scenario
LoopMaxTime == 4      \* the clock runs 0..LoopMaxTime where the control loop is followed

----------------------------------------------------------------------------
(* JSON values: a field of a decoded payload is a number, a string (any    *)
(* non-numeric value) or absent.                                           *)

Num(n) == [t |-> "num", v |-> n]
Str == [t |-> "str", v |-> 0]
Absent == [t |-> "none", v |-> 0]
IsNum(x) == x.t = "num"

MissingLane == "<absent>"
UnknownLane == "unknown"

----------------------------------------------------------------------------
(* Configuration                                                           *)

Lanes == config.lanes
LaneSet == {Lanes[i] : i \in 1..Len(Lanes)}

\* cycle 60 s, yellow 3 s, all-red 2 s, green within [10, 60]
StandardTiming ==
    [cycle_length |-> 60, yellow_time |-> 3, all_red_time |-> 2,
     min_green |-> 10, max_green |-> 60, control_interval |-> 1]
\* a longer cycle with a lower minimum green, so that seconds are left over
LongTiming ==
    [cycle_length |-> 90, yellow_time |-> 3, all_red_time |-> 2,
     min_green |-> 5, max_green |-> 60, control_interval |-> 1]

TwoLanes == <<"north", "south">>
FourLanes == <<"north", "south", "east", "west">>

MakeConfig(lanes, timing) ==
    [lanes |-> lanes, timing |-> timing, moving_average_window |-> Window]

----------------------------------------------------------------------------
(* Sequence helpers                                                        *)

RECURSIVE SumSeq(_)
SumSeq(s) == IF s = <<>> THEN 0 ELSE Head(s) + SumSeq(Tail(s))

RECURSIVE FilterInclusive(_, _)
\* a plausible slip: >= for >, which keeps the reading published at the cutoff
FilterInclusive(s, cutoff) ==
    IF s = <<>> THEN <<>>
    ELSE IF Head(s).timestamp >= cutoff
         THEN <<Head(s)>> \o FilterInclusive(Tail(s), cutoff)
         ELSE FilterInclusive(Tail(s), cutoff)

RECURSIVE Filter(_, _)
\* the list comprehension [d for d in s if d['timestamp'] > cutoff]
Filter(s, cutoff) ==
    IF s = <<>> THEN <<>>
    ELSE IF Head(s).timestamp > cutoff
         THEN <<Head(s)>> \o Filter(Tail(s), cutoff)
         ELSE Filter(Tail(s), cutoff)

----------------------------------------------------------------------------
(* on_message: the MQTT callback (edge_controller.py:71-120)               *)
(*                                                                         *)
(* A payload is [json, lane, density_pct, queue_len, seq, ts]; json is     *)
(* FALSE when json.loads fails.  Every exception is caught by the handler's*)
(* except clause, which leaves whatever was assigned before the raise.     *)

\* lines 77-86, before the lock: json.loads, data['lane'], data['ts'],
\* t_receive - t_publish, data['seq']
RaisesBeforeLock(msg) ==
    \/ ~msg.json
    \/ msg.lane = MissingLane
    \/ ~IsNum(msg.ts)
    \/ msg.seq.t = "none"

\* line 89: expected_seq = self.last_seq[lane] + 1
RaisesAtExpected(msg) ==
    \/ msg.lane \notin LaneSet
    \/ ~IsNum(last_seq[msg.lane])

expected_seq(msg) == last_seq[msg.lane].v + 1

\* a plausible slip: the comparison without the first-reading guard
LossBranchUnguarded(msg) ==
    ~IsNum(msg.seq) \/ msg.seq.v # expected_seq(msg)

\* line 91: self.last_seq[lane] >= 0 and current_seq != expected_seq
LossBranch(msg) ==
    /\ last_seq[msg.lane].v >= 0
    /\ (~IsNum(msg.seq) \/ msg.seq.v # expected_seq(msg))

\* line 92: lost = current_seq - expected_seq raises on a non-numeric seq
RaisesAtLost(msg) == LossBranch(msg) /\ ~IsNum(msg.seq)

Raises(msg) ==
    RaisesBeforeLock(msg) \/ RaisesAtExpected(msg) \/ RaisesAtLost(msg)

\* a plausible slip: only a number ahead of the expected one is counted
LostForwardOnly(msg) ==
    IF LossBranch(msg) /\ msg.seq.v > expected_seq(msg)
    THEN msg.seq.v - expected_seq(msg)
    ELSE 0

\* a plausible slip: the gap measured from the last number seen
LostFromLast(msg) ==
    IF LossBranch(msg) THEN msg.seq.v - last_seq[msg.lane].v ELSE 0

\* lines 91-93: what is added to metrics['lost_messages']
Lost(msg) ==
    IF LossBranch(msg) THEN msg.seq.v - expected_seq(msg) ELSE 0

\* line 83: latency_ms = (t_receive - t_publish) * 1000
latency_ms(msg) == (now - msg.ts.v) * 1000

\* lines 101-105: the stored reading; recv is a history field (the receipt
\* time), read by no operation of the controller
Reading(msg) ==
    [density |-> msg.density_pct,
     queue |-> IF msg.queue_len.t = "none" THEN Num(0) ELSE msg.queue_len,
     timestamp |-> msg.ts.v,
     recv |-> now]

\* a plausible slip: the window is appended to and never pruned
AppendOnly(window, msg) == Append(window, Reading(msg))

\* a plausible slip: the cutoff taken as the receipt time itself
StoreAndPruneAtReceipt(window, msg) ==
    Filter(Append(window, Reading(msg)), now)

\* lines 101-113: append, then keep the readings published after the cutoff
\* t_receive - window
StoreAndPrune(window, msg) ==
    Filter(Append(window, Reading(msg)), now - config.moving_average_window)

\* lines 88-113 and the except clause: the callback from the lock onwards
Locked(msg) ==
    /\ IF Raises(msg)
       THEN UNCHANGED <<sensor_data, last_seq, metrics, recv_log>>
       ELSE /\ last_seq' = [last_seq EXCEPT ![msg.lane] = msg.seq]
            /\ metrics' = [metrics EXCEPT
                   !.lost_messages = @ + Lost(msg),
                   !.total_messages = @ + 1,
                   !.latencies = Append(@, latency_ms(msg))]
            /\ IF msg.density_pct.t = "none"
               \* line 102 raises KeyError after the counters were updated
               THEN UNCHANGED <<sensor_data, recv_log>>
               ELSE /\ sensor_data' = [sensor_data EXCEPT
                          ![msg.lane] = StoreAndPrune(@, msg)]
                    /\ recv_log' = [recv_log EXCEPT ![msg.lane] = Append(@, now)]
    /\ UNCHANGED <<config, auxVars, now, connected, ctlVars>>

\* lines 76 and 119: the whole body is inside try ... except Exception, and
\* every exception the body raises (JSONDecodeError, UnicodeDecodeError,
\* KeyError, TypeError, ValueError) is an Exception: none leaves the callback
Escapes(msg) == FALSE

\* the client delivers a payload to the callback; an exception that left
\* the callback would end the client's network thread, and with it delivery
on_message(msg) ==
    /\ connected
    /\ IF Escapes(msg) /\ Raises(msg)
       THEN /\ connected' = FALSE
            /\ UNCHANGED <<config, auxVars, sensor_data, last_seq, metrics,
                           recv_log, now, ctlVars>>
       ELSE Locked(msg)

\* time.time() moves on, up to limit.  The callback reads the clock once
\* (line 81) and its locked section is over within that clock unit.
TickUntil(limit) ==
    /\ now < limit
    /\ lock # "ingest"
    /\ now' = now + 1
    /\ UNCHANGED <<config, auxVars, feedVars,
                   sensor_data, last_seq, metrics, connected, ctlVars,
                   recv_log, seqLog, lock>>

Tick == TickUntil(MaxTime)

----------------------------------------------------------------------------
(* compute_green_times (edge_controller.py:122-188)                        *)

\* lines 133-137: the mean of a lane's stored densities as the exact
\* fraction n/d, or 0.0 for an empty window
Densities(window) == [i \in 1..Len(window) |-> window[i].density.v]

Average(window) ==
    IF window = <<>> THEN [n |-> 0, d |-> 1]
    ELSE [n |-> SumSeq(Densities(window)), d |-> Len(window)]

\* sum(densities) raises TypeError when a stored density is not a number
AverageRaises(window) == \E i \in 1..Len(window) : ~IsNum(window[i].density)

RECURSIVE Product(_, _)
Product(lanes, avg) ==
    IF lanes = <<>> THEN 1 ELSE avg[Head(lanes)].d * Product(Tail(lanes), avg)

\* every average over the common denominator Product(lanes, avg)
Scaled(lanes, avg, l) == avg[l].n * (Product(lanes, avg) \div avg[l].d)

RECURSIVE ScaledTotal(_, _, _)
\* line 139: total_density = sum(avg_densities.values()), over that denominator
ScaledTotal(rest, lanes, avg) ==
    IF rest = <<>> THEN 0
    ELSE Scaled(lanes, avg, Head(rest)) + ScaledTotal(Tail(rest), lanes, avg)

TotalDensity(lanes, avg) == ScaledTotal(lanes, lanes, avg)

\* a plausible slip: the cycle split over the lanes without the halving
EqualWholeCycle(lanes, timing) == timing.cycle_length \div Len(lanes)

\* line 144: equal = cycle_length // (len(lanes) * 2)
EqualSplit(lanes, timing) == timing.cycle_length \div (Len(lanes) * 2)

\* line 154: available = cycle - n_phases * (yellow + all_red)
Available(lanes, timing) ==
    timing.cycle_length - Len(lanes) * (timing.yellow_time + timing.all_red_time)

\* int(x) for the fraction n/d, d > 0: truncation toward zero
Trunc(n, d) == IF n >= 0 THEN n \div d ELSE -((-n) \div d)

\* a plausible slip: the upper bound applied and the lower one forgotten
TruncBelowMax(n, d, timing) ==
    IF timing.max_green * d <= n THEN timing.max_green ELSE Trunc(n, d)

\* lines 159-166 and 170: int(max(min_green, min(max_green, raw_green))) with
\* raw_green = avg/total * available = n/d
ClampTrunc(n, d, timing) ==
    LET upper == IF timing.max_green * d <= n THEN [n |-> timing.max_green, d |-> 1]
                 ELSE [n |-> n, d |-> d]
        lower == IF timing.min_green * upper.d >= upper.n
                 THEN [n |-> timing.min_green, d |-> 1]
                 ELSE upper
    IN  Trunc(lower.n, lower.d)

RawGreens(lanes, avg, timing) ==
    [l \in {lanes[i] : i \in 1..Len(lanes)} |->
        ClampTrunc(Scaled(lanes, avg, l) * Available(lanes, timing),
                   TotalDensity(lanes, avg), timing)]

RECURSIVE SumOver(_, _)
SumOver(lanes, f) ==
    IF lanes = <<>> THEN 0 ELSE f[Head(lanes)] + SumOver(Tail(lanes), f)

\* avg[a] > avg[b], as fractions with positive denominators
Denser(avg, a, b) == avg[a].n * avg[b].d > avg[b].n * avg[a].d

RECURSIVE InsertByDensity(_, _, _)
\* l after every lane that is at least as dense: equal keys keep their order
InsertByDensity(sorted, avg, l) ==
    IF sorted = <<>> THEN <<l>>
    ELSE IF Denser(avg, l, Head(sorted))
         THEN <<l>> \o sorted
         ELSE <<Head(sorted)>> \o InsertByDensity(Tail(sorted), avg, l)

RECURSIVE SortedFrom(_, _, _)
SortedFrom(rest, avg, sorted) ==
    IF rest = <<>> THEN sorted
    ELSE SortedFrom(Tail(rest), avg, InsertByDensity(sorted, avg, Head(rest)))

\* a plausible slip: the lanes taken as configured, without the sort
ConfigurationOrder(lanes, avg) == lanes

\* lines 178-179: sorted(avg_densities.items(), key=density, reverse=True),
\* a stable sort of the lanes in configuration order
SortedLanes(lanes, avg) == SortedFrom(lanes, avg, <<>>)

\* a plausible slip: the sorted lanes walked again and again until diff is
\* 0, every lane taking |diff| \div n seconds and the first |diff| % n one more
RedistributeUntilDone(order, greens, diff) ==
    LET size == IF diff < 0 THEN -diff ELSE diff
        sign == IF diff < 0 THEN -1 ELSE 1
        n == Len(order)
    IN  IF n = 0 THEN greens
        ELSE [l \in DOMAIN greens |->
                 LET i == CHOOSE k \in 1..n : order[k] = l
                 IN  greens[l]
                       + sign * ((size \div n) + (IF i <= size % n THEN 1 ELSE 0))]

RECURSIVE Redistribute(_, _, _)
\* lines 181-186: one pass over the sorted lanes, one second each, until
\* diff is 0 or the lanes are exhausted
Redistribute(order, greens, diff) ==
    IF order = <<>> \/ diff = 0 THEN greens
    ELSE LET adjustment == IF diff > 0 THEN 1 ELSE -1
         IN  Redistribute(Tail(order),
                          [greens EXCEPT ![Head(order)] = @ + adjustment],
                          diff - adjustment)

\* lines 139-188: the schedule for a snapshot of averages
Allocation(lanes, avg, timing) ==
    IF TotalDensity(lanes, avg) <= 0
    THEN [l \in {lanes[i] : i \in 1..Len(lanes)} |-> EqualSplit(lanes, timing)]
    ELSE LET greens == RawGreens(lanes, avg, timing)
             diff == Available(lanes, timing) - SumOver(lanes, greens)
         IN  Redistribute(SortedLanes(lanes, avg), greens, diff)

----------------------------------------------------------------------------
(* control_loop (edge_controller.py:243-292): sleep, compute_green_times,  *)
(* publish_schedule, log_to_csv, cycle_count += 1.  The two start-up sleeps*)
(* (lines 258 and 304, 6 s) are shorter than one clock unit and are part   *)
(* of the first sleep.                                                     *)

ingestVars == <<sensor_data, last_seq, metrics, recv_log, seqLog>>

\* an entry of loop_log: the step taken and whether it succeeded
Step(op, ok) == [op |-> op, ok |-> ok]

\* a plausible slip: the tick is started by the clock alone, whatever the
\* loop is doing (a timer in place of the sleep at the head of the loop)
AcquireOnTimer ==
    /\ pc \notin {"stopped", "interrupted"}
    /\ now >= wake_at
    /\ metrics.cycle_count < MaxCycles
    /\ lock = "free"
    /\ lock' = "loop"
    /\ pc' = "sleeping"
    /\ loop_log' = Append(loop_log, Step("lock", TRUE))
    /\ UNCHANGED <<config, auxVars, feedVars,
                   now, connected, wake_at, avg_densities, green_times,
                   published, csv_rows, ingestVars>>

\* line 263 ends and the with statement of line 129 takes self.lock
AcquireForSnapshot ==
    /\ pc = "sleeping"
    /\ now >= wake_at
    /\ metrics.cycle_count < MaxCycles
    /\ lock = "free"
    /\ lock' = "loop"
    /\ loop_log' = Append(loop_log, Step("lock", TRUE))
    /\ UNCHANGED <<config, auxVars, feedVars,
                   now, connected, pc, wake_at, avg_densities,
                   green_times, published, csv_rows, ingestVars>>

\* a plausible slip: the rest of compute_green_times indented under the with
HeldAfterSnapshot == "loop"

\* line 137 is the last line of the with block: the lock is released there
\* (also when sum() raises)
ReleasedAfterSnapshot == "free"

\* lines 129-137: the averages of all lanes are read under the lock.  A
\* TypeError in sum() leaves the loop through the finally clause (lines
\* 279-281), which disconnects the client.
Snapshot ==
    /\ pc = "sleeping"
    /\ lock = "loop"
    /\ lock' = ReleasedAfterSnapshot
    /\ IF \E l \in LaneSet : AverageRaises(sensor_data[l])
       THEN /\ pc' = "stopped"
            /\ connected' = FALSE
            /\ loop_log' = Append(loop_log, Step("compute", FALSE))
            /\ UNCHANGED avg_densities
       ELSE /\ avg_densities' = [l \in LaneSet |-> Average(sensor_data[l])]
            /\ pc' = "allocate"
            /\ loop_log' = Append(loop_log, Step("compute", TRUE))
            /\ UNCHANGED connected
    /\ UNCHANGED <<config, auxVars, feedVars,
                   now, wake_at, green_times, published, csv_rows,
                   ingestVars>>

\* line 144 divides by len(self.lanes) * 2: ZeroDivisionError for no lanes
AllocationRaises(lanes, avg) ==
    TotalDensity(lanes, avg) <= 0 /\ Len(lanes) = 0

\* lines 139-188, outside the lock; an exception ends the loop as above
Allocate ==
    /\ pc = "allocate"
    /\ IF AllocationRaises(Lanes, avg_densities)
       THEN /\ pc' = "stopped"
            /\ connected' = FALSE
            /\ UNCHANGED green_times
       ELSE /\ green_times' = Allocation(Lanes, avg_densities, config.timing)
            /\ pc' = "publish"
            /\ UNCHANGED connected
    /\ UNCHANGED <<config, auxVars, feedVars,
                   now, wake_at, avg_densities, published, csv_rows,
                   loop_log, lock, ingestVars>>

\* a plausible slip: the counter read after its increment
NextCycleCount == metrics.cycle_count + 1

\* line 205: 'cycle_count': self.metrics['cycle_count']
ScheduleCycleCount == metrics.cycle_count

\* lines 192-208: the command message
Schedule ==
    [cycle_start_ts |-> now,
     cycle_length |-> config.timing.cycle_length,
     cycle_count |-> ScheduleCycleCount,
     phase_schedule |->
        [i \in 1..Len(Lanes) |->
            [lane |-> Lanes[i], green |-> green_times[Lanes[i]],
             yellow |-> config.timing.yellow_time]]]

\* line 211: client.publish accepts the message
Publish ==
    /\ pc = "publish"
    /\ published' = <<Schedule>>
    /\ loop_log' = Append(loop_log, Step("publish", TRUE))
    /\ pc' = "log"
    /\ UNCHANGED <<config, auxVars, feedVars,
                   now, connected, wake_at, avg_densities, green_times,
                   csv_rows, lock, ingestVars>>

\* line 211: client.publish returns an error code (no connection, queue
\* full); the return value is discarded and the cycle goes on
PublishFails ==
    /\ pc = "publish"
    /\ loop_log' = Append(loop_log, Step("publish", FALSE))
    /\ pc' = "log"
    /\ UNCHANGED <<config, auxVars, feedVars,
                   now, connected, wake_at, avg_densities, green_times,
                   published, csv_rows, lock, ingestVars>>

\* line 211: client.publish raises (ValueError, OSError).  Only
\* KeyboardInterrupt is caught (line 277): the exception leaves the loop
\* through the finally clause, lines 272-275 are not reached
PublishRaises ==
    /\ pc = "publish"
    /\ loop_log' = Append(loop_log, Step("publish", FALSE))
    /\ pc' = "stopped"
    /\ connected' = FALSE
    /\ UNCHANGED <<config, auxVars, feedVars,
                   now, wake_at, avg_densities, green_times,
                   published, csv_rows, lock, ingestVars>>

\* lines 225-241: one row per lane; the mean latency is sum/max(1, len)
LogToCsv ==
    /\ pc = "log"
    /\ csv_rows' =
          [i \in 1..Len(Lanes) |->
              [cycle |-> metrics.cycle_count,
               lane |-> Lanes[i],
               avg_density |-> avg_densities[Lanes[i]],
               green_time |-> green_times[Lanes[i]],
               latency_sum |-> SumSeq(metrics.latencies),
               latency_n |-> IF Len(metrics.latencies) > 1
                             THEN Len(metrics.latencies) ELSE 1,
               messages_lost |-> metrics.lost_messages]]
    /\ loop_log' = Append(loop_log, Step("log", TRUE))
    /\ pc' = "count"
    /\ UNCHANGED <<config, auxVars, feedVars,
                   now, connected, wake_at, avg_densities, green_times,
                   published, lock, ingestVars>>

\* line 275, then the next time.sleep(control_interval) of line 263
CountCycle ==
    /\ pc = "count"
    /\ metrics' = [metrics EXCEPT !.cycle_count = @ + 1]
    /\ pc' = "sleeping"
    /\ wake_at' = now + config.timing.control_interval
    /\ UNCHANGED <<config, auxVars, feedVars,
                   now, connected, avg_densities, green_times, published,
                   csv_rows, sensor_data, last_seq, recv_log, seqLog, lock,
                   loop_log>>

\* lines 277-281: KeyboardInterrupt is raised in the control loop (the main
\* thread) wherever it stands; the with block, if entered, releases the
\* lock, the except clause prints and the finally clause disconnects
Interrupt ==
    /\ pc \notin {"stopped", "interrupted"}
    /\ pc' = "interrupted"
    /\ connected' = FALSE
    /\ lock' = IF lock = "loop" THEN "free" ELSE lock
    /\ UNCHANGED <<config, auxVars, feedVars,
                   now, wake_at, avg_densities, green_times, published,
                   csv_rows, loop_log, ingestVars>>

----------------------------------------------------------------------------
(* The sensors and the transport                                           *)

DensityValues == {0, 80}

\* virtual_sensor.py:68-72: int((density / 100) * max_queue), max_queue = 20
estimate_queue_length(density) == (density * 20) \div 100

\* virtual_sensor.py:80-87: a reading with sequence number seq, published
\* delay clock units before it is received
SensorMessage(lane, density, seq, delay) ==
    [json |-> TRUE, lane |-> lane, density_pct |-> Num(density),
     queue_len |-> Num(estimate_queue_length(density)),
     seq |-> Num(seq), ts |-> Num(now - delay)]

Delays == {0, Window}

MalformedKinds ==
    {"not_json", "no_lane", "unknown_lane", "no_ts", "str_ts", "no_seq",
     "str_seq", "no_density", "str_density", "out_of_range"}

\* a payload that departs from the inbound format in one respect
Malform(m, kind) ==
    CASE kind = "not_json" -> [m EXCEPT !.json = FALSE]
      [] kind = "no_lane" -> [m EXCEPT !.lane = MissingLane]
      [] kind = "unknown_lane" -> [m EXCEPT !.lane = UnknownLane]
      [] kind = "no_ts" -> [m EXCEPT !.ts = Absent]
      [] kind = "str_ts" -> [m EXCEPT !.ts = Str]
      [] kind = "no_seq" -> [m EXCEPT !.seq = Absent]
      [] kind = "str_seq" -> [m EXCEPT !.seq = Str]
      [] kind = "no_density" -> [m EXCEPT !.density_pct = Absent]
      [] kind = "str_density" -> [m EXCEPT !.density_pct = Str]
      [] kind = "out_of_range" -> [m EXCEPT !.density_pct = Num(150)]  \* above [0, 100]

\* the well-formed readings of a lane that carry sequence number seq
ReadingsWith(lane, seq) ==
    {SensorMessage(lane, d, seq, delay) :
        d \in DensityValues, delay \in {x \in Delays : x <= now}}

\* the malformed payloads built on a reading of the first lane
MalformedWith(seq) ==
    {Malform(SensorMessage(Lanes[1], 80, seq, 0), kind) : kind \in MalformedKinds}

WellFormedMessages ==
    UNION {ReadingsWith(l, s) : l \in LaneSet, s \in 0..MaxSeq}

MalformedMessages == UNION {MalformedWith(s) : s \in 0..MaxSeq}

\* a well-formed reading arrives
Deliver ==
    /\ metrics.total_messages < MaxMsgs
    /\ lock = "free"
    /\ \E msg \in WellFormedMessages : on_message(msg)
    /\ UNCHANGED <<seqLog, lock, feedVars>>

\* a malformed payload arrives
DeliverMalformed ==
    /\ metrics.total_messages < MaxMsgs
    /\ lock = "free"
    /\ \E msg \in MalformedMessages : on_message(msg)
    /\ UNCHANGED <<seqLog, lock, feedVars>>

----------------------------------------------------------------------------
(* The observers, the all-in-one backend and the sensors at start          *)

\* the four lanes dashboard.py and app.py are written for
ObserverLanes == {FourLanes[i] : i \in 1..Len(FourLanes)}

\* current_state as the module defines it
InitialObserverState ==
    [cycle_count |-> 0,
     green_times |-> [l \in ObserverLanes |-> 10],
     signals |-> [l \in ObserverLanes |-> "RED"]]

\* AdaptiveController.__init__, and its thread before the first cycle
FreshAdaptive ==
    [pc |-> "average", cycle_count |-> 0, lane |-> 1,
     avg_density |-> [l \in ObserverLanes |-> [n |-> 0, d |-> 1]],
     green_times |-> [l \in ObserverLanes |-> 0],
     published |-> <<>>]

\* nothing delivered yet: no first sequence number, no drops
NothingDelivered == [first |-> -1, dropped |-> 0, pending |-> 0]

AuxFresh ==
    /\ dashboard_state = InitialObserverState
    /\ api_state = InitialObserverState
    /\ api_sensor_data = [l \in ObserverLanes |-> <<>>]
    /\ state_lock = "free"
    /\ adaptive = FreshAdaptive
    /\ sequence = [l \in ObserverLanes |-> 0]
    /\ transport = [l \in ObserverLanes |-> NothingDelivered]

----------------------------------------------------------------------------
(* The controller after __init__ (edge_controller.py:18-46)                *)

Fresh(cfg) ==
    /\ config = cfg
    /\ sensor_data = [l \in LaneSet |-> <<>>]
    /\ last_seq = [l \in LaneSet |-> Num(-1)]
    /\ metrics = [latencies |-> <<>>, lost_messages |-> 0,
                  total_messages |-> 0, cycle_count |-> 0]
    /\ now = 0
    /\ connected = TRUE
    /\ pc = "sleeping"
    /\ wake_at = cfg.timing.control_interval
    /\ avg_densities = [l \in LaneSet |-> [n |-> 0, d |-> 1]]
    /\ green_times = [l \in LaneSet |-> 0]
    /\ published = <<>>
    /\ csv_rows = <<>>
    /\ recv_log = [l \in LaneSet |-> <<>>]
    /\ seqLog = <<>>
    /\ lock = "free"
    /\ loop_log = <<>>
    /\ AuxFresh

Init == Fresh(MakeConfig(TwoLanes, StandardTiming))

Next ==
    \/ Deliver
    \/ DeliverMalformed
    \/ Tick
    \/ AcquireForSnapshot
    \/ Snapshot
    \/ Allocate
    \/ Publish
    \/ PublishFails
    \/ PublishRaises
    \/ LogToCsv
    \/ CountCycle
    \/ Interrupt

Spec == Init /\ [][Next]_vars

----------------------------------------------------------------------------
(* Ingestion alone: the callback and the clock, the control loop asleep    *)

NextIngest ==
    \/ Deliver
    \/ DeliverMalformed
    \/ Tick

SpecIngest == Init /\ [][NextIngest]_vars

----------------------------------------------------------------------------
(* Loss accounting on one lane: a fresh controller is fed readings of the  *)
(* first lane, one sequence number after the other, all received at once   *)

FeedReading ==
    /\ Len(seqLog) < ScenarioLen
    /\ lock = "free"
    /\ \E s \in 0..ScenarioMaxSeq :
          /\ on_message(SensorMessage(Lanes[1], 80, s, 0))
          /\ seqLog' = Append(seqLog, s)
    /\ UNCHANGED <<lock, feedVars>>

NextLoss == FeedReading

SpecLoss == Init /\ [][NextLoss]_vars

----------------------------------------------------------------------------
(* The control loop next to the callback: the sensors report in order, the *)
(* callback takes and releases the lock in separate steps, and the clock   *)
(* runs long enough for a cycle to overrun its interval                    *)

LoopTick == TickUntil(LoopMaxTime)

\* virtual_sensor.py:80-102: the next reading of a lane, received at once
NextReading(lane) ==
    SensorMessage(lane, 80, last_seq[lane].v + 1, 0)

\* lines 77-88: the callback has decoded a payload and takes self.lock
AcquireForIngest ==
    /\ connected
    /\ metrics.total_messages < MaxMsgs
    /\ lock = "free"
    /\ lock' = "ingest"
    /\ UNCHANGED <<config, auxVars, feedVars,
                   now, connected, ctlVars, ingestVars>>

\* lines 89-113: the locked section, at the end of which the lock is free
IngestLocked ==
    /\ lock = "ingest"
    /\ \E l \in LaneSet : Locked(NextReading(l))
    /\ lock' = "free"
    /\ UNCHANGED <<seqLog, feedVars>>

NextLoop ==
    \/ AcquireForIngest
    \/ IngestLocked
    \/ LoopTick
    \/ AcquireForSnapshot
    \/ Snapshot
    \/ Allocate
    \/ Publish
    \/ PublishFails
    \/ PublishRaises
    \/ LogToCsv
    \/ CountCycle
    \/ Interrupt

SpecLoop == Init /\ [][NextLoop]_vars

----------------------------------------------------------------------------
(* Start-up: __init__ takes whatever controller.yml holds (lines 20-25)    *)
(* and run() goes straight to the control loop                             *)

MinAboveMax == [StandardTiming EXCEPT !.min_green = 20, !.max_green = 10]
\* two lanes need 2 * (3 + 2) = 10 s of yellow and all-red
ShortCycle == [StandardTiming EXCEPT !.cycle_length = 8]
NegativeYellow == [StandardTiming EXCEPT !.yellow_time = -3]
NoLanes == <<>>

ConfigFiles ==
    {MakeConfig(TwoLanes, StandardTiming),
     MakeConfig(TwoLanes, MinAboveMax),
     MakeConfig(TwoLanes, ShortCycle),
     MakeConfig(TwoLanes, NegativeYellow),
     MakeConfig(NoLanes, StandardTiming)}

InitConfig == \E cfg \in ConfigFiles : Fresh(cfg)

SpecConfig == InitConfig /\ [][NextLoop]_vars

----------------------------------------------------------------------------
(* The allocation on its own: every lane has reported a window of readings *)
(* at time 0 and the control loop runs one cycle                           *)

StoredReading(density) ==
    [density |-> Num(density), queue |-> Num(estimate_queue_length(density)),
     timestamp |-> 0, recv |-> 0]

ComputeWindows ==
    {<<>>}
    \cup {<<StoredReading(d)>> : d \in {0, 20, 50, 80}}
    \cup {<<StoredReading(50), StoredReading(25)>>,
          <<StoredReading(80), StoredReading(15), StoredReading(10)>>}

ComputeConfigs ==
    {MakeConfig(FourLanes, StandardTiming), MakeConfig(FourLanes, LongTiming)}

RECURSIVE Zeros(_)
Zeros(n) == IF n = 0 THEN <<>> ELSE <<0>> \o Zeros(n - 1)

RECURSIVE TotalLen(_, _)
TotalLen(lanes, windows) ==
    IF lanes = <<>> THEN 0
    ELSE Len(windows[Head(lanes)]) + TotalLen(Tail(lanes), windows)

\* the state after each lane l received Len(sensor_data[l]) readings, with
\* sequence numbers from 0, at time 0, and the clock reached the first wake-up
InitCompute ==
    /\ config \in ComputeConfigs
    /\ sensor_data \in [LaneSet -> ComputeWindows]
    /\ last_seq = [l \in LaneSet |-> Num(Len(sensor_data[l]) - 1)]
    /\ metrics = [latencies |-> Zeros(TotalLen(Lanes, sensor_data)),
                  lost_messages |-> 0,
                  total_messages |-> TotalLen(Lanes, sensor_data),
                  cycle_count |-> 0]
    /\ now = config.timing.control_interval
    /\ connected = TRUE
    /\ pc = "sleeping"
    /\ wake_at = config.timing.control_interval
    /\ avg_densities = [l \in LaneSet |-> [n |-> 0, d |-> 1]]
    /\ green_times = [l \in LaneSet |-> 0]
    /\ published = <<>>
    /\ csv_rows = <<>>
    /\ recv_log = [l \in LaneSet |-> Zeros(Len(sensor_data[l]))]
    /\ seqLog = <<>>
    /\ lock = "free"
    /\ loop_log = <<>>
    /\ AuxFresh

NextCompute ==
    \/ AcquireForSnapshot
    \/ Snapshot
    \/ Allocate
    \/ Publish
    \/ PublishFails
    \/ PublishRaises
    \/ LogToCsv
    \/ CountCycle
    \/ Interrupt

SpecCompute == InitCompute /\ [][NextCompute]_vars

----------------------------------------------------------------------------
(* The observers: the command branch of on_message (dashboard.py) and of   *)
(* on_mqtt_message (app.py)                                                *)

\* everything the edge controller owns
edgeVars == <<config, sensor_data, last_seq, metrics, now, connected, pc,
              wake_at, avg_densities, green_times, published, csv_rows,
              recv_log, seqLog, lock, loop_log>>

\* the command messages the broker has for the subscribers of the commands
\* topic: the edge controller's and the backend's own
Commands ==
    {published[i] : i \in 1..Len(published)}
    \cup {adaptive.published[i] : i \in 1..Len(adaptive.published)}

RECURSIVE ScheduledGreens(_, _)
\* for phase in schedule: current_state['green_times'][lane] = green
ScheduledGreens(phases, greens) ==
    IF phases = <<>> THEN greens
    ELSE ScheduledGreens(Tail(phases),
             [greens EXCEPT ![Head(phases).lane] = Head(phases).green])

RECURSIVE ScheduledSignals(_, _)
\* app.py: the colour is set in the same loop, for the lanes of the schedule
ScheduledSignals(phases, signals) ==
    IF phases = <<>> THEN signals
    ELSE ScheduledSignals(Tail(phases),
             [signals EXCEPT ![Head(phases).lane] =
                 IF Head(phases).green > 0 THEN "GREEN" ELSE "RED"])

\* dashboard.py:107-119: the green times of the schedule, then the colour
\* of every lane from its green time
DashboardCommand ==
    /\ \E payload \in Commands :
         LET greens == ScheduledGreens(payload.phase_schedule,
                                       dashboard_state.green_times)
         IN dashboard_state' =
              [cycle_count |-> payload.cycle_count,
               green_times |-> greens,
               signals |-> [l \in DOMAIN dashboard_state.signals |->
                              IF greens[l] > 0 THEN "GREEN" ELSE "RED"]]
    /\ UNCHANGED <<edgeVars, api_state, api_sensor_data, state_lock, adaptive,
                   sequence, transport>>

\* app.py:122-130, under state_lock
ApiCommand ==
    /\ state_lock = "free"
    /\ \E payload \in Commands :
         api_state' =
           [cycle_count |-> payload.cycle_count,
            green_times |-> ScheduledGreens(payload.phase_schedule,
                                            api_state.green_times),
            signals |-> ScheduledSignals(payload.phase_schedule,
                                         api_state.signals)]
    /\ UNCHANGED <<edgeVars, dashboard_state, api_sensor_data, state_lock,
                   adaptive, sequence, transport>>

\* the edge controller's loop with no reading arriving, and the two observers
NextObserver ==
    \/ LoopTick
    \/ AcquireForSnapshot
    \/ Snapshot
    \/ Allocate
    \/ Publish
    \/ PublishFails
    \/ PublishRaises
    \/ LogToCsv
    \/ CountCycle
    \/ Interrupt
    \/ DashboardCommand
    \/ ApiCommand

SpecObserver == Init /\ [][NextObserver]_vars

----------------------------------------------------------------------------
(* The all-in-one backend (app.py): the density branch of on_mqtt_message  *)
(* and the AdaptiveController thread                                       *)

SensorDequeLen == 30

\* deque(maxlen=30).append: the oldest entry leaves a full deque
AppendBounded(q, x) ==
    LET appended == Append(q, x)
    IN  IF Len(appended) > SensorDequeLen THEN Tail(appended) ELSE appended

\* the readings the backend's deques hold
ApiStored == TotalLen(FourLanes, api_sensor_data)

\* lines 99-101: the callback has decoded a payload and takes state_lock
ApiAcquire ==
    /\ state_lock = "free"
    /\ ApiStored < MaxMsgs
    /\ state_lock' = "handler"
    /\ UNCHANGED <<edgeVars, dashboard_state, api_state, api_sensor_data,
                   adaptive, sequence, transport>>

\* lines 103-119: the density is appended to the lane's deque, and the with
\* block releases state_lock
ApiStore ==
    /\ state_lock = "handler"
    /\ \E l \in ObserverLanes, density \in DensityValues :
         api_sensor_data' =
            [api_sensor_data EXCEPT ![l] = AppendBounded(@, density)]
    /\ state_lock' = "free"
    /\ UNCHANGED <<edgeVars, dashboard_state, api_state, adaptive, sequence,
                   transport>>

\* AdaptiveController.__init__: the timing is fixed in the code
AdaptiveTiming ==
    [cycle_length |-> 60, yellow_time |-> 3, all_red_time |-> 2,
     min_green |-> 10, max_green |-> 60]

\* lines 211-214: the mean of a deque's densities, or 0 for an empty one
ApiAverageOf(q) ==
    IF q = <<>> THEN [n |-> 0, d |-> 1] ELSE [n |-> SumSeq(q), d |-> Len(q)]

\* a plausible slip: the share rounded to the nearest second, not truncated
RoundClamp(n, d, timing) ==
    LET whole == (2 * n + d) \div (2 * d)
        upper == IF timing.max_green < whole THEN timing.max_green ELSE whole
    IN  IF timing.min_green > upper THEN timing.min_green ELSE upper

\* lines 236-237: max(min_green, min(max_green, int(green))) for green = n/d
TruncClamp(n, d, timing) ==
    LET whole == Trunc(n, d)
        upper == IF timing.max_green < whole THEN timing.max_green ELSE whole
    IN  IF timing.min_green > upper THEN timing.min_green ELSE upper

\* lines 227-237
AdaptiveRawGreens(lanes, avg, timing) ==
    [l \in {lanes[i] : i \in 1..Len(lanes)} |->
        TruncClamp(Scaled(lanes, avg, l) * Available(lanes, timing),
                   TotalDensity(lanes, avg), timing)]

\* lines 216-254: the schedule for the averages; the redistribution (lines
\* 240-252) is the edge controller's, statement for statement
AdaptiveAllocation(lanes, avg, timing) ==
    IF TotalDensity(lanes, avg) <= 0
    THEN [l \in {lanes[i] : i \in 1..Len(lanes)} |-> timing.min_green]
    ELSE LET greens == AdaptiveRawGreens(lanes, avg, timing)
             diff == Available(lanes, timing) - SumOver(lanes, greens)
         IN  Redistribute(SortedLanes(lanes, avg), greens, diff)

\* lines 209-214: the loop over self.lanes reads one lane's deque; the
\* thread does not take state_lock
ApiAverage ==
    /\ adaptive.pc = "average"
    /\ adaptive.cycle_count < MaxCycles
    /\ adaptive' =
         [adaptive EXCEPT
            !.avg_density[FourLanes[adaptive.lane]] =
                ApiAverageOf(api_sensor_data[FourLanes[adaptive.lane]]),
            !.lane = IF adaptive.lane = Len(FourLanes) THEN 1 ELSE @ + 1,
            !.pc = IF adaptive.lane = Len(FourLanes) THEN "allocate" ELSE @]
    /\ UNCHANGED <<edgeVars, dashboard_state, api_state, api_sensor_data,
                   state_lock, sequence, transport>>

\* lines 216-254
ApiAllocate ==
    /\ adaptive.pc = "allocate"
    /\ adaptive' =
         [adaptive EXCEPT
            !.green_times =
                AdaptiveAllocation(FourLanes, adaptive.avg_density,
                                   AdaptiveTiming),
            !.pc = "publish"]
    /\ UNCHANGED <<edgeVars, dashboard_state, api_state, api_sensor_data,
                   state_lock, sequence, transport>>

\* publish_schedule, lines 260-279: the message, then cycle_count += 1
ApiPublish ==
    /\ adaptive.pc = "publish"
    /\ adaptive' =
         [adaptive EXCEPT
            !.published =
                <<[cycle_length |-> AdaptiveTiming.cycle_length,
                   cycle_count |-> adaptive.cycle_count,
                   phase_schedule |->
                      [i \in 1..Len(FourLanes) |->
                         [lane |-> FourLanes[i],
                          green |-> adaptive.green_times[FourLanes[i]],
                          yellow |-> AdaptiveTiming.yellow_time]]]>>,
            !.cycle_count = @ + 1,
            !.pc = "average"]
    /\ UNCHANGED <<edgeVars, dashboard_state, api_state, api_sensor_data,
                   state_lock, sequence, transport>>

NextApi ==
    \/ ApiAcquire
    \/ ApiStore
    \/ ApiAverage
    \/ ApiAllocate
    \/ ApiPublish
    \/ ApiCommand

SpecApi == Init /\ [][NextApi]_vars

----------------------------------------------------------------------------
(* The window: readings in sequence, each published now or one window      *)
(* horizon ago                                                             *)

\* a reading of any lane, next in its lane's sequence, received delay after
\* it was published
FeedInOrder ==
    /\ metrics.total_messages < MaxMsgs
    /\ lock = "free"
    /\ \E l \in LaneSet, density \in DensityValues,
          delay \in {x \in Delays : x <= now} :
         on_message(SensorMessage(l, density, last_seq[l].v + 1, delay))
    /\ UNCHANGED <<seqLog, lock, feedVars>>

NextWindow ==
    \/ FeedInOrder
    \/ Tick

SpecWindow == Init /\ [][NextWindow]_vars

----------------------------------------------------------------------------
(* Loss accounting over the lanes: readings of any lane with any sequence  *)
(* number, with or without a density, all received at once                 *)

\* the payloads the accounting is fed for a lane and a sequence number
CountedWith(lane, seq) ==
    {SensorMessage(lane, 80, seq, 0),
     Malform(SensorMessage(lane, 80, seq, 0), "no_density")}

\* the first sequence number delivered for a lane is remembered
FirstDelivered(lane, seq) ==
    [transport EXCEPT ![lane].first = IF @ = -1 THEN seq ELSE @]

FeedAnyOrder ==
    /\ metrics.total_messages < ScenarioLen
    /\ lock = "free"
    /\ \E l \in LaneSet, s \in 0..MaxSeq :
         \E msg \in CountedWith(l, s) :
            /\ on_message(msg)
            /\ transport' = FirstDelivered(l, s)
    /\ UNCHANGED <<seqLog, lock, sequence>>

NextAccount == FeedAnyOrder

SpecAccount == Init /\ [][NextAccount]_vars

----------------------------------------------------------------------------
(* The sensors (virtual_sensor.py) and the transport between them and the  *)
(* callback: each lane's messages arrive in the order they were published, *)
(* none twice, some not at all                                             *)

\* a plausible slip: the counter advanced only when the message went out
SequenceAfterSuccess(lane, accepted) ==
    IF accepted THEN sequence[lane] + 1 ELSE sequence[lane]

\* line 102: self.sequence += 1, whatever publish returned
SequenceAfter(lane, accepted) == sequence[lane] + 1

\* lines 79-86: the message of the lane's sensor
SensorReading(lane) == SensorMessage(lane, 80, sequence[lane], 0)

\* the message reached the callback: the drops since the last delivery lie
\* between two delivered messages, unless this is the lane's first
Delivered(lane) ==
    [transport EXCEPT
        ![lane] = [first |-> IF @.first = -1 THEN sequence[lane] ELSE @.first,
                   dropped |-> IF @.first = -1 THEN 0 ELSE @.dropped + @.pending,
                   pending |-> 0]]

\* the message did not reach the callback
Dropped(lane) == [transport EXCEPT ![lane].pending = @ + 1]

\* publish_density, and the broker delivers the message
SensorDelivered ==
    /\ lock = "free"
    /\ \E l \in LaneSet :
         /\ sequence[l] < ScenarioLen
         /\ on_message(SensorReading(l))
         /\ sequence' = [sequence EXCEPT ![l] = SequenceAfter(l, TRUE)]
         /\ transport' = Delivered(l)
    /\ UNCHANGED <<seqLog, lock>>

\* publish_density, and the message is lost: publish failed, or the broker
\* or the network dropped it
SensorDropped ==
    /\ \E l \in LaneSet :
         /\ sequence[l] < ScenarioLen
         /\ sequence' = [sequence EXCEPT ![l] = SequenceAfter(l, FALSE)]
         /\ transport' = Dropped(l)
    /\ UNCHANGED <<edgeVars, auxVars>>

NextTransport ==
    \/ SensorDelivered
    \/ SensorDropped

SpecTransport == Init /\ [][NextTransport]_vars

----------------------------------------------------------------------------
(* The two controllers side by side: the edge controller and the backend   *)
(* hold the same readings under the backend's fixed configuration, and     *)
(* each computes its schedule                                              *)

\* the densities of an edge controller's window, as the backend stores them
DequeOf(window) == [i \in 1..Len(window) |-> window[i].density.v]

InitBoth ==
    /\ config = MakeConfig(FourLanes, StandardTiming)
    /\ sensor_data \in [LaneSet -> ComputeWindows]
    /\ last_seq = [l \in LaneSet |-> Num(Len(sensor_data[l]) - 1)]
    /\ metrics = [latencies |-> Zeros(TotalLen(Lanes, sensor_data)),
                  lost_messages |-> 0,
                  total_messages |-> TotalLen(Lanes, sensor_data),
                  cycle_count |-> 0]
    /\ now = config.timing.control_interval
    /\ connected = TRUE
    /\ pc = "sleeping"
    /\ wake_at = config.timing.control_interval
    /\ avg_densities = [l \in LaneSet |-> [n |-> 0, d |-> 1]]
    /\ green_times = [l \in LaneSet |-> 0]
    /\ published = <<>>
    /\ csv_rows = <<>>
    /\ recv_log = [l \in LaneSet |-> Zeros(Len(sensor_data[l]))]
    /\ seqLog = <<>>
    /\ lock = "free"
    /\ loop_log = <<>>
    /\ dashboard_state = InitialObserverState
    /\ api_state = InitialObserverState
    /\ api_sensor_data = [l \in ObserverLanes |-> DequeOf(sensor_data[l])]
    /\ state_lock = "free"
    /\ adaptive = FreshAdaptive
    /\ sequence = [l \in ObserverLanes |-> 0]
    /\ transport = [l \in ObserverLanes |-> NothingDelivered]

NextBoth ==
    \/ AcquireForSnapshot
    \/ Snapshot
    \/ Allocate
    \/ ApiAverage
    \/ ApiAllocate

SpecBoth == InitBoth /\ [][NextBoth]_vars

----------------------------------------------------------------------------
(* Properties                                                              *)

Last(s) == s[Len(s)]

AllMessages == WellFormedMessages \cup MalformedMessages

\* the callback ran to the end of its locked section for msg
Applied(msg) == ~Raises(msg) /\ on_message(msg)

AllAveragesZero == \A l \in LaneSet : avg_densities[l].n = 0

\* C1: whenever the total of the averages is positive, the green times that
\* compute_green_times returns sum to exactly
\* cycle_length - lanes * (yellow_time + all_red_time).
C1_GreenSumIsAvailable ==
    (pc = "publish" /\ TotalDensity(Lanes, avg_densities) > 0)
        => SumOver(Lanes, green_times) = Available(Lanes, config.timing)

\* C2: when every average is 0 (empty windows included), every lane gets the
\* same value g = floor(cycle_length / (2 * lanes)), i.e.
\* 2 * lanes * g <= cycle_length < 2 * lanes * (g + 1).
C2_ZeroDensityEqualSplit ==
    (pc = "publish" /\ AllAveragesZero)
        => \A l \in LaneSet :
              LET g == green_times[l]
              IN  /\ 2 * Len(Lanes) * g <= config.timing.cycle_length
                  /\ config.timing.cycle_length < 2 * Len(Lanes) * (g + 1)

\* a schedule was computed for zero traffic, one lane having reported density
\* 0 and another nothing at all
C2_Witness ==
    /\ pc = "publish"
    /\ AllAveragesZero
    /\ config.timing = StandardTiming
    /\ sensor_data[Lanes[1]] # <<>>
    /\ sensor_data[Lanes[2]] = <<>>
    /\ green_times[Lanes[1]] = 7

\* C3: a reading whose sequence number exceeds expected = last_seq + 1, on a
\* lane whose last_seq is set, adds exactly seq - expected to lost_messages
\* and sets last_seq to seq.
C3_GapAddsToLost ==
    [][metrics'.total_messages # metrics.total_messages
       => \A l \in LaneSet : \A s \in 0..MaxSeq :
             (/\ IsNum(last_seq[l])
              /\ last_seq[l] # Num(-1)
              /\ s > last_seq[l].v + 1)
             => \A msg \in ReadingsWith(l, s) \cup MalformedWith(s) :
                   (msg.lane = l /\ IsNum(msg.seq) /\ Applied(msg))
                   => /\ metrics'.lost_messages =
                             metrics.lost_messages + s - (last_seq[l].v + 1)
                      /\ last_seq'[l] = Num(s)]_vars

\* the first lane reported 0 and then 2: one message counted lost
C3_Witness ==
    /\ metrics.total_messages = 2
    /\ Len(recv_log[Lanes[1]]) = 2
    /\ last_seq[Lanes[1]] = Num(2)
    /\ metrics.lost_messages = 1

\* C4 as stated: feeding 0, 1, 2, 5, 6 to a fresh controller on one lane
\* leaves lost_messages = 3.
C4_LostIsThree ==
    seqLog = <<0, 1, 2, 5, 6>> => metrics.lost_messages = 3

\* C4 amended: feeding 0, 1, 2, 5, 6 to a fresh controller on one lane leaves
\* lost_messages = 2, the two numbers 3 and 4 that were skipped.
C4_LostIsTwo ==
    seqLog = <<0, 1, 2, 5, 6>> => metrics.lost_messages = 2

C4_Witness ==
    /\ seqLog = <<0, 1, 2, 5, 6>>
    /\ metrics.total_messages = 5
    /\ last_seq[Lanes[1]] = Num(6)

\* C5: a stale or duplicate reading (seq <= last_seq, last_seq set) leaves
\* lost_messages unchanged, is appended to the lane's window and sets
\* last_seq to its sequence number.
C5_DuplicateNotPenalized ==
    [][\A s \in 0..ScenarioMaxSeq :
          LET msg == SensorMessage(Lanes[1], 80, s, 0)
          IN  (/\ Applied(msg)
               /\ last_seq[msg.lane] # Num(-1)
               /\ s <= last_seq[msg.lane].v)
              => /\ metrics'.lost_messages = metrics.lost_messages
                 /\ last_seq'[msg.lane] = msg.seq
                 /\ sensor_data'[msg.lane] =
                        Append(sensor_data[msg.lane], Reading(msg))]_vars

\* C6: total_messages, lost_messages and cycle_count never decrease.
C6_CountersNeverDecrease ==
    [][/\ metrics'.total_messages >= metrics.total_messages
       /\ metrics'.lost_messages >= metrics.lost_messages
       /\ metrics'.cycle_count >= metrics.cycle_count]_vars

\* C7: the first reading of a lane (last_seq unset) leaves lost_messages
\* unchanged whatever its sequence number, and sets last_seq to it.
C7_FirstReadingNoLoss ==
    [][metrics'.total_messages # metrics.total_messages
       => \A l \in LaneSet :
             last_seq[l] = Num(-1)
             => \A s \in 0..MaxSeq :
                   \A msg \in ReadingsWith(l, s) \cup MalformedWith(s) :
                      (msg.lane = l /\ Applied(msg))
                      => /\ metrics'.lost_messages = metrics.lost_messages
                         /\ last_seq'[l] = msg.seq]_vars

\* the second lane's first reading carried sequence number 2
C7_Witness ==
    /\ metrics.total_messages = 1
    /\ last_seq[Lanes[1]] = Num(-1)
    /\ last_seq[Lanes[2]] = Num(2)
    /\ Len(recv_log[Lanes[2]]) = 1
    /\ metrics.lost_messages = 0

\* C8: a malformed payload leaves total_messages, lost_messages, last_seq,
\* the latency samples and every window as they were.
C8_MalformedDropped ==
    [][\A msg \in MalformedMessages :
          on_message(msg)
          => /\ metrics' = metrics
             /\ last_seq' = last_seq
             /\ sensor_data' = sensor_data]_vars

\* C9: no window holds a reading received more than the window horizon
\* before the latest reading recorded for its lane.
C9_PrunedAfterHorizon ==
    \A l \in LaneSet :
        \A i \in 1..Len(sensor_data[l]) :
            sensor_data[l][i].recv + config.moving_average_window
                >= Last(recv_log[l])

\* a lane recorded two readings more than the horizon apart and holds only
\* the later one
C9_Witness ==
    \E l \in LaneSet :
        /\ Len(recv_log[l]) = 2
        /\ recv_log[l][2] > recv_log[l][1] + config.moving_average_window
        /\ Len(sensor_data[l]) = 1
        /\ sensor_data[l][1].recv = recv_log[l][2]

\* C10: once a lane has recorded nothing for longer than the window horizon,
\* the average the control loop computes for it is 0.
C10_SilentLaneAverageZero ==
    [][(pc = "sleeping" /\ pc' = "allocate")
          => \A l \in LaneSet :
                (/\ recv_log[l] # <<>>
                 /\ now > Last(recv_log[l]) + config.moving_average_window)
                => avg_densities'[l].n = 0]_vars

\* the control loop completes a tick: line 275 runs
TickCompletes == pc = "count" /\ pc' = "sleeping"

\* the tick about to complete handed its schedule to the transport
PublishedInTick ==
    /\ Len(loop_log) >= 2
    /\ loop_log[Len(loop_log) - 1] = Step("publish", TRUE)
    /\ published # <<>>

Taken(op) == Cardinality({i \in 1..Len(loop_log) : loop_log[i].op = op})

\* the control loop has left `while True` through an exception
Crashed == pc = "stopped"

\* C12: a failed publish is not fatal: the control loop is still running
\* after it (and goes on to the next tick).
C12_PublishFailureNonFatal ==
    [][(pc = "publish" /\ loop_log' = Append(loop_log, Step("publish", FALSE)))
          => (pc' = "log" /\ connected')]_vars

\* C13: cycle_count counts the computed cycles: once a tick is over (the
\* loop sleeps again or has left through an exception), cycle_count equals
\* the number of ticks whose allocation succeeded, i.e. that reached the
\* publish call, whether that call succeeded or failed.
C13_CountsComputedCycles ==
    (lock # "loop" /\ (pc = "sleeping" \/ Crashed))
        => metrics.cycle_count = Taken("publish")

\* the order of the steps of one tick
TickSteps == <<"lock", "compute", "publish", "log">>

\* the steps the loop has taken at position p of tick number cycle_count
StepsAt(p) == 4 * metrics.cycle_count + p

\* C14: cycles are serial and none is skipped: the steps taken by the loop
\* are snapshot, compute, publish, log over and over, each once per tick
\* and in that order; a tick starts only when every earlier tick has
\* published, logged and been counted and its sleep is over, however long
\* the earlier tick took.
C14_CyclesSerial ==
    /\ \A i \in 1..Len(loop_log) : loop_log[i].op = TickSteps[((i - 1) % 4) + 1]
    /\ (pc = "sleeping" /\ lock # "loop") => Len(loop_log) = StepsAt(0)
    /\ (pc = "sleeping" /\ lock = "loop")
          => (Len(loop_log) = StepsAt(1) /\ now >= wake_at)
    /\ pc \in {"allocate", "publish"} => Len(loop_log) = StepsAt(2)
    /\ pc = "log" => Len(loop_log) = StepsAt(3)
    /\ pc = "count" => Len(loop_log) = StepsAt(4)
    /\ (pc = "log" /\ Last(loop_log).ok)
          => (published # <<>> /\ published[1].cycle_count = metrics.cycle_count)

\* the first tick published at time 1 and was counted at time 3, two
\* control intervals later; the second tick then started at time 4
C14_Witness ==
    /\ pc = "allocate"
    /\ metrics.cycle_count = 1
    /\ published # <<>>
    /\ published[1].cycle_start_ts = 1
    /\ wake_at = 3 + config.timing.control_interval
    /\ now = wake_at
    /\ Len(loop_log) = 6

\* C15: a KeyboardInterrupt that arrives while a cycle is in flight does
\* not cut it short: when the loop has shut down on an interrupt, every
\* cycle whose compute started has been published, logged and counted.
C15_InterruptFinishesCycle ==
    pc = "interrupted"
        => /\ Taken("compute") = metrics.cycle_count
           /\ Taken("log") = metrics.cycle_count

\* the control loop takes a step that reads or writes self.metrics: line 205
\* (cycle_count), lines 227-238 (latencies, lost_messages), line 275
LoopTouchesMetrics ==
    /\ pc \in {"publish", "log", "count"}
    /\ pc' \notin {pc, "interrupted"}

\* C16: the shared state is only touched under self.lock, so the control
\* loop never reads or writes the metrics while an ingest call is inside
\* its locked section.
C16_MetricsUnderLock ==
    [][LoopTouchesMetrics => lock # "ingest"]_vars

\* C17: in each tick the loop takes the lock once, for the snapshot only,
\* and no longer holds it while it allocates, publishes, logs and counts:
\* an ingest call can take the lock in any of those states.
C17_LockFreeWhileComputing ==
    /\ pc \in {"allocate", "publish", "log", "count"} => lock # "loop"
    /\ lock = "loop" => (pc = "sleeping" /\ Last(loop_log).op = "lock")
    /\ pc \in {"sleeping", "allocate", "publish", "log", "count"}
          => Taken("lock") = metrics.cycle_count
                 + (IF pc = "sleeping" /\ lock # "loop" THEN 0 ELSE 1)

\* an ingest call holds the lock while the loop is about to publish
C17_Witness ==
    /\ pc = "publish"
    /\ lock = "ingest"
    /\ Taken("lock") = 1

\* what a valid configuration is: lanes, ordered green bounds, no negative
\* timing value, and room in the cycle for every yellow and all-red phase
ValidConfig(cfg) ==
    /\ Len(cfg.lanes) > 0
    /\ cfg.timing.min_green <= cfg.timing.max_green
    /\ \A f \in {"cycle_length", "yellow_time", "all_red_time", "min_green",
                 "max_green", "control_interval"} : cfg.timing[f] >= 0
    /\ Available(cfg.lanes, cfg.timing) >= 0

\* C18: an invalid configuration is rejected at start-up: the control loop
\* never takes a step under one, and the allocation never runs without
\* lanes or with a negative available time.
C18_InvalidConfigRejected ==
    /\ ~ValidConfig(config) => loop_log = <<>>
    /\ pc = "allocate"
          => (Len(Lanes) > 0 /\ Available(Lanes, config.timing) >= 0)

\* a capacity below the number of readings the callback is fed
LatencyCapacity == MaxMsgs - 1

\* C19: the latency samples are kept in a bounded ring: however many
\* readings were ingested, the store holds no more than its capacity.
C19_LatencyRingBounded ==
    Len(metrics.latencies) <= LatencyCapacity

\* the stored colours of a snapshot are the ones its green times give
SignalsFollowGreens(state) ==
    \A l \in ObserverLanes :
        state.signals[l] = (IF state.green_times[l] > 0 THEN "GREEN" ELSE "RED")

\* C21: in every state of the dashboard's and of the backend's
\* current_state, the initial one included, a lane's signal is GREEN
\* exactly when its green time is above zero, and RED otherwise.
C21_SignalFollowsGreenTime ==
    /\ SignalsFollowGreens(dashboard_state)
    /\ SignalsFollowGreens(api_state)

\* C22: whatever payload it is handed, the callback lets no exception out
\* (the client keeps delivering) and leaves the lock free, and afterwards
\* a valid reading of any configured lane is still ingested.
C22_CallbackSurvivesAnyPayload ==
    /\ connected
    /\ lock = "free"
    /\ \A msg \in WellFormedMessages : ~Raises(msg)

\* C23: when the averages of the backend's controller sum to zero or less,
\* every lane gets floor(cycle_length / (2 * number of lanes)) seconds.
C23_AdaptiveZeroDensitySplit ==
    (adaptive.pc = "publish"
       /\ TotalDensity(FourLanes, adaptive.avg_density) <= 0)
    => \A l \in ObserverLanes :
          adaptive.green_times[l]
              = AdaptiveTiming.cycle_length \div (2 * Len(FourLanes))

\* C25: the backend's compute_green_times reads sensor_data only while it
\* holds state_lock: no lane's deque is read for its average while an
\* on_mqtt_message call holds the lock to append to it.
C25_AveragesUnderStateLock ==
    [][(adaptive.pc = "average" /\ adaptive'.lane # adaptive.lane)
          => state_lock # "handler"]_vars

\* the readings of a window whose age at receipt time R is below the horizon
AgedBelow(window, R, horizon) ==
    LET Young(r) == R - r.timestamp < horizon
    IN  SelectSeq(window, Young)

\* the readings of a window whose age at receipt time R is at most the horizon
AgedAtMost(window, R, horizon) ==
    LET Young(r) == R - r.timestamp <= horizon
    IN  SelectSeq(window, Young)

Adjustment(l) ==
    green_times[l] - RawGreens(Lanes, avg_densities, config.timing)[l]

\* the seconds left over (or overspent) before the redistribution
LeftOver ==
    Available(Lanes, config.timing)
        - SumOver(Lanes, RawGreens(Lanes, avg_densities, config.timing))

Position(l) == CHOOSE i \in 1..Len(Lanes) : Lanes[i] = l

\* a comes before b by descending average, ties in configuration order
Precedes(a, b) ==
    \/ Denser(avg_densities, a, b)
    \/ (~Denser(avg_densities, b, a) /\ Position(a) < Position(b))

Magnitude(n) == IF n < 0 THEN -n ELSE n

\* C26: the redistribution moves single seconds, all of the sign of diff,
\* down the lanes by descending average (ties in configuration order): a
\* lane that precedes another got at least as many seconds as it, and at
\* most one more.
C26_AdjustmentsFollowDensityOrder ==
    (pc = "publish" /\ TotalDensity(Lanes, avg_densities) > 0)
    => /\ \A l \in LaneSet :
            /\ LeftOver > 0 => Adjustment(l) >= 0
            /\ LeftOver < 0 => Adjustment(l) <= 0
            /\ LeftOver = 0 => Adjustment(l) = 0
       /\ \A a, b \in LaneSet :
            Precedes(a, b)
            => /\ Magnitude(Adjustment(a)) >= Magnitude(Adjustment(b))
               /\ Magnitude(Adjustment(a)) <= Magnitude(Adjustment(b)) + 1

\* a denser lane configured after a sparser one got a second that the
\* sparser one did not
C26_Witness ==
    /\ pc = "publish"
    /\ TotalDensity(Lanes, avg_densities) > 0
    /\ \E a, b \in LaneSet :
         /\ Position(a) > Position(b)
         /\ Denser(avg_densities, a, b)
         /\ Adjustment(a) # 0
         /\ Adjustment(b) = 0

\* C27: with a positive total and min_green <= max_green, the green time a
\* lane has before the redistribution is the proportional share
\* avg/total * available, clamped to [min_green, max_green] and then
\* truncated: it lies within the bounds, it is the bound where the share
\* is outside them, and otherwise it is the whole part of the share.
C27_ClampedThenTruncated ==
    (/\ pc = "publish"
     /\ TotalDensity(Lanes, avg_densities) > 0
     /\ config.timing.min_green <= config.timing.max_green)
    => \A l \in LaneSet :
         LET share == Scaled(Lanes, avg_densities, l)
                          * Available(Lanes, config.timing)
             total == TotalDensity(Lanes, avg_densities)
             green == RawGreens(Lanes, avg_densities, config.timing)[l]
             lo == config.timing.min_green
             hi == config.timing.max_green
         IN  /\ lo <= green /\ green <= hi
             /\ share < lo * total => green = lo
             /\ share > hi * total => green = hi
             /\ (lo * total <= share /\ share <= hi * total)
                   => (green * total <= share /\ share < (green + 1) * total)

\* a cycle where one lane's share is below min_green and another's is a
\* fraction within the bounds
C27_Witness ==
    /\ pc = "publish"
    /\ TotalDensity(Lanes, avg_densities) > 0
    /\ \E a, b \in LaneSet :
         LET total == TotalDensity(Lanes, avg_densities)
             shareA == Scaled(Lanes, avg_densities, a)
                           * Available(Lanes, config.timing)
             shareB == Scaled(Lanes, avg_densities, b)
                           * Available(Lanes, config.timing)
         IN  /\ shareA < config.timing.min_green * total
             /\ shareB > config.timing.min_green * total
             /\ shareB % total # 0
             /\ green_times[a] >= config.timing.min_green

RECURSIVE SpanOver(_)
\* over the lanes that have reported: last_seq - firstSeq + 1, summed
SpanOver(lanes) ==
    IF lanes = <<>> THEN 0
    ELSE (IF transport[Head(lanes)].first = -1 THEN 0
          ELSE last_seq[Head(lanes)].v - transport[Head(lanes)].first + 1)
         + SpanOver(Tail(lanes))

\* C28: when every ingested sequence number is 0 or more, lost_messages is
\* the sum over the lanes that have reported of
\* last_seq - firstSeq + 1, minus total_messages, whatever the order, the
\* gaps and the duplicates in between.
C28_LostTelescopes ==
    (\A l \in LaneSet : IsNum(last_seq[l]) /\ last_seq[l].v >= -1)
    => metrics.lost_messages = SpanOver(Lanes) - metrics.total_messages

\* both lanes reported, one of them with a duplicate and a step back, and
\* a payload without density was counted
C28_Witness ==
    /\ \A l \in LaneSet : transport[l].first # -1
    /\ \E l \in LaneSet : last_seq[l].v < transport[l].first
    /\ metrics.lost_messages < 0
    /\ metrics.total_messages = ScenarioLen
    /\ TotalLen(Lanes, sensor_data) < ScenarioLen

RECURSIVE DroppedBetween(_)
\* the messages dropped between the first and the latest delivered message
\* of each lane, summed
DroppedBetween(lanes) ==
    IF lanes = <<>> THEN 0
    ELSE transport[Head(lanes)].dropped + DroppedBetween(Tail(lanes))

\* C29: with one sensor per lane numbering its publish attempts from 0 and
\* a transport that keeps each lane's order and duplicates nothing,
\* lost_messages is the number of messages dropped between the first and
\* the latest delivered message of each lane (0 when nothing is dropped).
C29_LostCountsDrops ==
    metrics.lost_messages = DroppedBetween(Lanes)

\* a lane that lost its first message, one between two deliveries and one
\* after its latest delivery, next to a lane that lost one in between
C29_Witness ==
    \E a, b \in LaneSet :
        /\ transport[a].first = 1
        /\ transport[a].dropped = 1
        /\ transport[a].pending = 1
        /\ Len(sensor_data[a]) = 2
        /\ transport[b].first = 0
        /\ transport[b].dropped = 1
        /\ metrics.lost_messages = 2

\* the two controllers have computed a schedule from equal averages
BothComputed ==
    /\ pc = "publish"
    /\ adaptive.pc = "publish"
    /\ \A l \in LaneSet :
          avg_densities[l].n * adaptive.avg_density[l].d
              = adaptive.avg_density[l].n * avg_densities[l].d

\* C30: under the backend's fixed configuration and for equal averages of
\* positive total, the backend's controller (truncate, then clamp) and the
\* edge controller (clamp, then truncate) give every lane the same green
\* time.
C30_ControllersAgree ==
    (BothComputed /\ TotalDensity(Lanes, avg_densities) > 0)
    => \A l \in LaneSet : green_times[l] = adaptive.green_times[l]

\* both have computed, and a lane's share is a fraction below min_green,
\* where the order of truncation and clamp could matter
C30_Witness ==
    /\ BothComputed
    /\ TotalDensity(Lanes, avg_densities) > 0
    /\ \E l \in LaneSet :
         LET share == Scaled(Lanes, avg_densities, l)
                          * Available(Lanes, config.timing)
             total == TotalDensity(Lanes, avg_densities)
         IN  /\ share < config.timing.min_green * total
             /\ share > (config.timing.min_green - 1) * total
             /\ green_times[l] = adaptive.green_times[l]

C32_IngestedReadingInWindow ==
    [][\A l \in LaneSet, density \in DensityValues, delay \in Delays :
          LET msg == SensorMessage(l, density, last_seq[l].v + 1, delay)
          IN  (/\ delay <= now
               /\ Applied(msg)
               /\ metrics'.total_messages = metrics.total_messages + 1)
              => /\ sensor_data'[l] # <<>>
                 /\ Last(sensor_data'[l]) = Reading(msg)]_vars

\* C32 amended: the same for a reading received less than the window
\* horizon after it was published.
C32_FreshReadingInWindow ==
    [][\A l \in LaneSet, density \in DensityValues, delay \in Delays :
          LET msg == SensorMessage(l, density, last_seq[l].v + 1, delay)
          IN  (/\ delay <= now
               /\ delay < config.moving_average_window
               /\ Applied(msg)
               /\ metrics'.total_messages = metrics.total_messages + 1)
              => /\ sensor_data'[l] # <<>>
                 /\ Last(sensor_data'[l]) = Reading(msg)]_vars

\* a lane's second reading arrived as it was published, after the clock
\* moved on, and it is the last of the lane's window
C32_Witness ==
    \E l \in LaneSet :
        /\ Len(recv_log[l]) = 2
        /\ now > 0
        /\ sensor_data[l] # <<>>
        /\ Last(sensor_data[l]).recv = now
        /\ Last(sensor_data[l]).timestamp = now
        /\ Last(recv_log[l]) = now

====
